---- MODULE Spec2Model ----
(***************************************************************************)
(* Prayer times by the Diyanet (Turkey) method: src/prayer_times.py.       *)
(*                                                                         *)
(* The program computes in IEEE doubles.  The model computes in fixed      *)
(* point: angles in millidegrees, sines and cosines in 1/10000, clock      *)
(* times in ticks of 1/3000 hour (1.2 s, 50 ticks to the minute).  The     *)
(* library functions math.sin, math.cos, math.acos, math.asin, math.atan,  *)
(* math.atan2 and math.tan are computed from one table of sines.           *)
(***************************************************************************)
EXTENDS Integers, Sequences, FiniteSets, TLC

\* ------------------------------------------------------------------ units
\* 1 degree, in the model's angle unit.
MilliDeg == 1000
\* 1.0, in the model's unit for sines, cosines and tangents.
Scale == 10000
\* 1 hour, in the model's time unit.
TicksPerHour == 3000

Abs(x) == IF x < 0 THEN -x ELSE x
Sgn(x) == IF x < 0 THEN -1 ELSE IF x > 0 THEN 1 ELSE 0

\* Python's None, and a present value: `float | None`.
None == <<>>
Some(v) == <<v>>

\* Minutes as decimal hours: the literals 7.0 / 60.0, 92.0 / 60.0, ...
Minutes(m) == (m * TicksPerHour) \div 60

\* ------------------------------------------------------------- math.sin &c
\* sin of 0..90 whole degrees.
SinTab ==
  << 0, 175, 349, 523, 698, 872, 1045, 1219, 1392, 1564, 1736, 1908, 2079,
     2250, 2419, 2588, 2756, 2924, 3090, 3256, 3420, 3584, 3746, 3907, 4067, 4226,
     4384, 4540, 4695, 4848, 5000, 5150, 5299, 5446, 5592, 5736, 5878, 6018, 6157,
     6293, 6428, 6561, 6691, 6820, 6947, 7071, 7193, 7314, 7431, 7547, 7660, 7771,
     7880, 7986, 8090, 8192, 8290, 8387, 8480, 8572, 8660, 8746, 8829, 8910, 8988,
     9063, 9135, 9205, 9272, 9336, 9397, 9455, 9511, 9563, 9613, 9659, 9703, 9744,
     9781, 9816, 9848, 9877, 9903, 9925, 9945, 9962, 9976, 9986, 9994, 9998, 10000 >>

\* sin on [0, 90] degrees: the table, linearly interpolated.
SinQ(a) ==
  LET i == a \div MilliDeg
      f == a % MilliDeg
  IN  IF f = 0 THEN SinTab[i + 1]
      ELSE SinTab[i + 1] + (((SinTab[i + 2] - SinTab[i + 1]) * f) \div MilliDeg)

\* _normalize_angle_360
NormalizeAngle360(degrees) ==
  LET d == degrees % (360 * MilliDeg)
  IN  IF d >= 0 THEN d ELSE d + 360 * MilliDeg

\* math.sin(_deg2rad(a))
Sin(a) ==
  LET x == NormalizeAngle360(a)
  IN  IF x <= 90 * MilliDeg THEN SinQ(x)
      ELSE IF x <= 180 * MilliDeg THEN SinQ(180 * MilliDeg - x)
      ELSE IF x <= 270 * MilliDeg THEN -SinQ(x - 180 * MilliDeg)
      ELSE -SinQ(360 * MilliDeg - x)

\* math.cos(_deg2rad(a)), to the model's resolution.
Cos(a) == Sin(a + 90 * MilliDeg)

\* CosResidual as real arithmetic has it: cos(90 degrees) is 0.
CosResidualExact(a) == 0

\* No double is an odd multiple of pi/2, so math.cos never returns 0.0: at
\* a = 90 it returns 6.1e-17, at a = 270 it returns -1.8e-16.  Where Cos(a)
\* rounds to 0 this is the sign of the double math.cos returns.
CosResidual(a) ==
  LET x == NormalizeAngle360(Abs(a))
  IN  IF Cos(a) # 0 THEN 0
      ELSE IF x <= 90 * MilliDeg \/ x > 270 * MilliDeg THEN 1 ELSE -1

\* The inverse functions search the table by bisection: the largest angle
\* t in lo..hi-1 at which the test holds, the test holding at lo and, from
\* some angle on, no more.
RECURSIVE ACosSearch(_, _, _)
ACosSearch(c, lo, hi) ==
  IF hi - lo <= 1 THEN lo
  ELSE LET mid == (lo + hi) \div 2
       IN  IF Cos(mid) >= c THEN ACosSearch(c, mid, hi) ELSE ACosSearch(c, lo, mid)

\* _rad2deg(math.acos(c)) for -1 <= c <= 1: in [0, 180] degrees.
ACos(c) == ACosSearch(c, 0, 180 * MilliDeg + 1)

RECURSIVE ASinSearch(_, _, _)
ASinSearch(s, lo, hi) ==
  IF hi - lo <= 1 THEN lo
  ELSE LET mid == (lo + hi) \div 2
       IN  IF Sin(mid) <= s THEN ASinSearch(s, mid, hi) ELSE ASinSearch(s, lo, mid)

\* _rad2deg(math.asin(s)) for -1 <= s <= 1: in [-90, 90] degrees.
ASin(s) ==
  IF s <= -Scale THEN -90 * MilliDeg
  ELSE ASinSearch(s, -90 * MilliDeg, 90 * MilliDeg + 1)

RECURSIVE ATanSearch(_, _, _, _)
ATanSearch(ay, ax, lo, hi) ==
  IF hi - lo <= 1 THEN lo
  ELSE LET mid == (lo + hi) \div 2
       IN  IF ay * Cos(mid) - ax * Sin(mid) >= 0 THEN ATanSearch(ay, ax, mid, hi)
           ELSE ATanSearch(ay, ax, lo, mid)

\* _rad2deg(math.atan2(y, x)): in (-180, 180] degrees.
ATan2(y, x) ==
  LET ay == Abs(y)
      ax == Abs(x)
      phi == IF ay = 0 THEN 0 ELSE ATanSearch(ay, ax, 0, 90 * MilliDeg + 1)
  IN  IF x >= 0 /\ y >= 0 THEN phi
      ELSE IF x < 0 /\ y >= 0 THEN 180 * MilliDeg - phi
      ELSE IF x < 0 THEN phi - 180 * MilliDeg
      ELSE -phi

\* math.tan(_deg2rad(a)) for 0 <= a < 90 degrees.  Within the model's
\* resolution of 90 degrees the tangent is the largest the model holds.
Tan(a) ==
  IF Cos(a) = 0 THEN Sin(a) * Scale
  ELSE (Sin(a) * Scale) \div Cos(a)

\* Python's round(n / d) for d > 0: to the nearest, a half to the even.
RoundHalfEven(n, d) ==
  LET q == n \div d
      r == n % d
  IN  IF 2 * r < d THEN q
      ELSE IF 2 * r > d THEN q + 1
      ELSE IF q % 2 = 0 THEN q ELSE q + 1

\* ------------------------------------------------------- the pure functions
\* _normalize_hour_24, on exact ticks.  In doubles the result is rounded:
\* for an argument less than an ulp below zero, 24 - |hours| rounds to 24.0
\* itself, which is why _decimal_hour_to_hhmm wraps hour 24.  A tick is far
\* coarser than an ulp, so here that argument is 0 and the result is 0.
NormalizeHour24(hours) ==
  LET h == hours % (24 * TicksPerHour)
  IN  IF h >= 0 THEN h ELSE h + 24 * TicksPerHour

Digit(n) == << "0", "1", "2", "3", "4", "5", "6", "7", "8", "9" >>[n + 1]

RECURSIVE Digits(_)
Digits(n) == IF n < 10 THEN << Digit(n) >> ELSE Digits(n \div 10) \o << Digit(n % 10) >>

\* f"{n:02d}" for n >= 0
Pad2(n) == IF n < 10 THEN << "0", Digit(n) >> ELSE Digits(n)

\* DecimalHourToHHMM without the wrap of hour 24 to 0.
DecimalHourToHHMMNoWrap(h0) ==
  LET h == NormalizeHour24(h0)
      hour0 == h \div TicksPerHour
      minute0 == RoundHalfEven((h - hour0 * TicksPerHour) * 60, TicksPerHour)
      minute == IF minute0 >= 60 THEN 0 ELSE minute0
      hour == IF minute0 >= 60 THEN hour0 + 1 ELSE hour0
  IN  Pad2(hour) \o << ":" >> \o Pad2(minute)

\* _decimal_hour_to_hhmm
DecimalHourToHHMM(h0) ==
  LET h == NormalizeHour24(h0)
      hour0 == h \div TicksPerHour
      minute0 == RoundHalfEven((h - hour0 * TicksPerHour) * 60, TicksPerHour)
      minute == IF minute0 >= 60 THEN 0 ELSE minute0
      hour1 == IF minute0 >= 60 THEN hour0 + 1 ELSE hour0
      hour == IF hour1 >= 24 THEN 0 ELSE hour1
  IN  Pad2(hour) \o << ":" >> \o Pad2(minute)

\* _julian_date, in whole days: -1524.5 + hour_utc / 24 is a whole number
\* for hour_utc = 12, the only value it is called with.
JulianDate(year0, month0, day, hour_utc) ==
  LET year == IF month0 <= 2 THEN year0 - 1 ELSE year0
      month == IF month0 <= 2 THEN month0 + 12 ELSE month0
      A == year \div 100
      B == 2 - A + (A \div 4)
      halfdays == 2 * (((1461 * (year + 4716)) \div 4)
                       + ((306001 * (month + 1)) \div 10000) + day + B)
                  - 3049 + (hour_utc \div 12)
  IN  halfdays \div 2

\* (milli + frac5 / 100000) millidegrees a day times D days, modulo 360
\* degrees: 0.98560028 * D is DegPerDay(985, 60028, D).
DegPerDay(milli, frac5, D) ==
  ((milli * (D % (360 * MilliDeg))) % (360 * MilliDeg))
  + ((frac5 * (D \div 1000)) \div 100)
  + ((frac5 * (D % 1000)) \div 100000)

\* Degrees of hour angle or longitude as decimal hours: x / 15.0
DegToHours(a) == (a * TicksPerHour) \div (15 * MilliDeg)

\* _sun_eq_of_time_and_declination: << EqT in hours, decl in degrees >>
SunEqOfTimeAndDeclination(jd) ==
  LET D == jd - 2451545
      g == NormalizeAngle360(357529 + DegPerDay(985, 60028, D))
      q == NormalizeAngle360(280459 + DegPerDay(985, 64736, D))
      L == NormalizeAngle360(q + ((1915 * Sin(g)) \div Scale)
                               + ((20 * Sin(2 * g)) \div Scale))
      e == 23439 - ((36 * D) \div 100000)
      sin_L == Sin(L)
      cos_L == Cos(L)
      cos_e == Cos(e)
      RA == ATan2((cos_e * sin_L) \div Scale, cos_L)
      RA_hours == NormalizeHour24(DegToHours(RA))
      EqT == DegToHours(q) - RA_hours
      decl == ASin((Sin(e) * sin_L) \div Scale)
  IN  << EqT, decl >>

\* DhuhrLocal with the offset taken as local minus UTC.
DhuhrLocalSignSlip(lng_deg, timezone_offset_minutes, eqtime_hours) ==
  LET tz_hours == (timezone_offset_minutes * TicksPerHour) \div 60
  IN  NormalizeHour24(12 * TicksPerHour + tz_hours - DegToHours(lng_deg) - eqtime_hours)

\* _dhuhr_local
DhuhrLocal(lng_deg, timezone_offset_minutes, eqtime_hours) ==
  LET tz_hours == (-timezone_offset_minutes * TicksPerHour) \div 60
  IN  NormalizeHour24(12 * TicksPerHour + tz_hours - DegToHours(lng_deg) - eqtime_hours)

\* A call's outcome: the value it returns, or the exception it raises.
Return(v) == [exc |-> "", ret |-> v]
Raise(e) == [exc |-> e, ret |-> None]

\* x / y on doubles, for x and y in 1/Scale^2 and the quotient in 1/Scale.
\* res is the sign of y where y rounds to 0 in the model (0: y is 0.0, and
\* Python raises).  The code only asks of a quotient beyond 1.0 that it is
\* beyond 1.0: its magnitude is cut at 20, and a quotient is kept on its
\* side of 1.0.
FloatDiv(num, den, res) ==
  LET an == Abs(num)
      ad == Abs(den)
      s == Sgn(num) * (IF den # 0 THEN Sgn(den) ELSE res)
      q0 == IF an <= 200000 THEN (an * Scale) \div ad
            ELSE ((an \div 1000) * Scale) \div (ad \div 1000)
      mag == IF an > ad /\ q0 <= Scale THEN Scale + 1 ELSE q0
  IN  IF den = 0 /\ res = 0 THEN Raise("ZeroDivisionError")
      ELSE IF den = 0 \/ an > 20 * ad THEN Return(s * 20 * Scale)
      ELSE Return(s * mag)

\* The sign of math.cos(_deg2rad(a)), which is never 0.0.
CosSign(a) == IF Cos(a) # 0 THEN Sgn(Cos(a)) ELSE CosResidual(a)

\* (sin_alt - sin(lat) * sin(decl)) / (cos(lat) * cos(decl))
CosOmega(sin_alt, lat_deg, decl_deg) ==
  LET den == Cos(lat_deg) * Cos(decl_deg)
  IN  FloatDiv(sin_alt * Scale - Sin(lat_deg) * Sin(decl_deg), den,
               IF den # 0 THEN 0 ELSE CosSign(lat_deg) * CosSign(decl_deg))

\* OutOfRange with the boundary excluded: -1 and 1 count as unreachable.
OutOfRangeExclusive(cos_omega) == cos_omega <= -Scale \/ cos_omega >= Scale

\* if cos_omega < -1 or cos_omega > 1: return None
OutOfRange(cos_omega) == cos_omega < -Scale \/ cos_omega > Scale

\* The tail both solvers share: the range test, then acos.
OmegaOf(q) ==
  IF q.exc # "" THEN q
  ELSE IF OutOfRange(q.ret) THEN Return(None)
  ELSE Return(Some(ACos(q.ret)))

\* _hour_angle_below_horizon
HourAngleBelowHorizon(lat_deg, decl_deg, angle_below_deg) ==
  LET sin_alt == Sin(-angle_below_deg)
  IN  OmegaOf(CosOmega(sin_alt, lat_deg, decl_deg))

\* 1.0 / (tan_zenith + 1.0): a double quotient of positive doubles is
\* positive, also below the model's resolution.
TanAlt(tan_zenith) ==
  LET q == (Scale * Scale) \div (tan_zenith + Scale)
  IN  IF q = 0 /\ tan_zenith + Scale > 0 THEN 1 ELSE q

\* _asr_hour_angle_shafi, from tan_zenith to cos_omega
AsrCosOmega(lat_deg, decl_deg) ==
  LET phi_minus_d == Abs(lat_deg - decl_deg)
      tan_zenith == Tan(phi_minus_d)
      tan_alt == TanAlt(tan_zenith)
      alt == ATan2(tan_alt, Scale)
      sin_alt == Sin(alt)
  IN  CosOmega(sin_alt, lat_deg, decl_deg)

\* _asr_hour_angle_shafi
AsrHourAngleShafi(lat_deg, decl_deg) ==
  LET phi_minus_d == Abs(lat_deg - decl_deg)
      tan_alt == TanAlt(Tan(phi_minus_d))
  IN  IF phi_minus_d >= 90 * MilliDeg THEN Return(None)
      ELSE IF tan_alt <= 0 THEN Return(None)
      ELSE OmegaOf(AsrCosOmega(lat_deg, decl_deg))

FAJR_ANGLE == 18000
ISHA_ANGLE == 17000
SUNRISE_SUNSET_ANGLE == 833

\* hours_from_noon, the closure of get_prayer_times
HoursFromNoon(omega_deg) ==
  IF omega_deg = None THEN 0 ELSE DegToHours(omega_deg[1])

\* OffsetOf with an undefined hour angle taken as half a day.
OffsetOfHalfDay(omega) == IF omega # None THEN HoursFromNoon(omega) ELSE 12 * TicksPerHour

\* hours_from_noon(omega) if omega is not None else 0.0
OffsetOf(omega) == IF omega # None THEN HoursFromNoon(omega) ELSE 0

\* ------------------------------------------------------------ date parsing
\* str.split(sep) for a one-character sep
RECURSIVE SplitFrom(_, _, _)
SplitFrom(s, sep, cur) ==
  IF s = << >> THEN << cur >>
  ELSE IF Head(s) = sep THEN << cur >> \o SplitFrom(Tail(s), sep, << >>)
  ELSE SplitFrom(Tail(s), sep, Append(cur, Head(s)))

Split(s, sep) == SplitFrom(s, sep, << >>)

DigitChars == { "0", "1", "2", "3", "4", "5", "6", "7", "8", "9" }
Whitespace == { " ", "\t", "\n" }

DigitValue(c) == CHOOSE n \in 0..9 : Digit(n) = c

RECURSIVE StripLeft(_)
StripLeft(s) ==
  IF s # << >> /\ Head(s) \in Whitespace THEN StripLeft(Tail(s)) ELSE s

RECURSIVE StripRight(_)
StripRight(s) ==
  IF s # << >> /\ s[Len(s)] \in Whitespace
  THEN StripRight(SubSeq(s, 1, Len(s) - 1)) ELSE s

RECURSIVE DecimalValue(_, _)
DecimalValue(s, acc) ==
  IF s = << >> THEN acc
  ELSE IF Head(s) = "_" THEN DecimalValue(Tail(s), acc)
  ELSE DecimalValue(Tail(s), 10 * acc + DigitValue(Head(s)))

\* PyInt that reads text without digits as 0 instead of raising.
PyIntLenient(s0) ==
  Return(DecimalValue(SelectSeq(s0, LAMBDA c : c \in DigitChars), 0))

\* int(s): surrounding whitespace, one sign, decimal digits with single
\* underscores between them; anything else raises ValueError.
PyInt(s0) ==
  LET s == StripRight(StripLeft(s0))
      signed == s # << >> /\ Head(s) \in { "+", "-" }
      body == IF signed THEN Tail(s) ELSE s
      wellFormed ==
        /\ body # << >>
        /\ \A i \in 1..Len(body) : body[i] \in DigitChars \cup { "_" }
        /\ body[1] # "_" /\ body[Len(body)] # "_"
        /\ \A i \in 1..(Len(body) - 1) : ~(body[i] = "_" /\ body[i + 1] = "_")
  IN  IF ~wellFormed THEN Raise("ValueError")
      ELSE IF signed /\ Head(s) = "-" THEN Return(-DecimalValue(body, 0))
      ELSE Return(DecimalValue(body, 0))

\* ------------------------------------------------------------------ state
VARIABLES
  pc,      \* where the running call of get_prayer_times stands
  args,    \* its arguments: lat, lng, date, timezone_offset_minutes
  frame,   \* its local variables, by name, as far as they are bound
  result,  \* the PrayerTimesResult it returned, or None
  exc,     \* the exception it raised, or ""
  prev,    \* the arguments, locals and result of the caller's previous call
  fmt,     \* a call of _decimal_hour_to_hhmm: its argument and return value
  sol      \* a call of an hour-angle solver: its arguments and outcome

vars == << pc, args, frame, result, exc, prev, fmt, sol >>

NoLocals == [x \in {} |-> 0]
Bound(name) == name \in DOMAIN frame

\* ----------------------------------------------------------------- inputs
\* Latitudes in millidegrees: the poles, the 45 degree boundary on both
\* sides, polar and temperate places, and two beyond the poles.
Latitudes ==
  { -95000, -90000, -60000, -45000, 0, 41008, 45000, 46000, 70000, 90000, 95000 }
Longitudes == { -74005, 28980, 185000 }
TimezoneOffsets == { -180, 0, 300 }

Chars(str) ==
  CASE str = "2026-02-20" -> << "2", "0", "2", "6", "-", "0", "2", "-", "2", "0" >>
    [] str = "2026-06-21" -> << "2", "0", "2", "6", "-", "0", "6", "-", "2", "1" >>
    [] str = "2026-12-21" -> << "2", "0", "2", "6", "-", "1", "2", "-", "2", "1" >>
    [] str = "2026/02/20" -> << "2", "0", "2", "6", "/", "0", "2", "/", "2", "0" >>

Dates == { Chars("2026-02-20"), Chars("2026-06-21"), Chars("2026-12-21"),
           Chars("2026/02/20") }

\* Every string of at most MaxDateLen characters of DateAlphabet.
MaxDateLen == 5
DateAlphabet == { "2", "0", "-", "/", "+", " " }
DateStrings == UNION { [1..n -> DateAlphabet] : n \in 0..MaxDateLen }

\* Decimal hours from MaxFmtHours before 0 to MaxFmtHours after 24.
MaxFmtHours == 2
FmtInputs == (-MaxFmtHours * TicksPerHour)..((24 + MaxFmtHours) * TicksPerHour)

\* Solver arguments: the poles, the polar circles, the equator; the tropics
\* and the equator; the three angles of the method and the two at which
\* cos(omega) is exactly 1 and -1 on the equator at equinox.
SolverLatitudes == { -90000, -66000, 0, 45000, 66000, 89000, 90000 }
SolverDeclinations == { -23439, -10000, 0, 10000, 23439 }
SolverAngles == { -90000, 0, 833, 17000, 18000, 90000 }

NoArgs == [lat |-> 0, lng |-> 0, date |-> << >>, timezone_offset_minutes |-> 0]
NoFmt == [h |-> 0, s |-> None]
NoSolver == [pc |-> "idle", fn |-> "", lat_deg |-> 0, decl_deg |-> 0,
             angle_below_deg |-> 0, cos_omega |-> None, out |-> None]

Fresh ==
  /\ frame = NoLocals
  /\ result = None
  /\ exc = ""
  /\ prev = None

\* A caller's first call, for a place, a date and an offset of the sets above.
InitPlaces ==
  /\ pc = "split"
  /\ args \in [lat : Latitudes, lng : Longitudes, date : Dates,
               timezone_offset_minutes : TimezoneOffsets]
  /\ Fresh
  /\ fmt = NoFmt
  /\ sol = NoSolver

\* A caller's first call, with any short string as the date.
InitDateStrings ==
  /\ pc = "split"
  /\ args \in [lat : { 41008 }, lng : { 28980 }, date : DateStrings,
               timezone_offset_minutes : { -180 }]
  /\ Fresh
  /\ fmt = NoFmt
  /\ sol = NoSolver

Init == InitPlaces \/ InitDateStrings

\* A call of _decimal_hour_to_hhmm alone.
InitFmt ==
  /\ pc = "idle"
  /\ args = NoArgs
  /\ Fresh
  /\ fmt \in [h : FmtInputs, s : { None }]
  /\ sol = NoSolver

\* A call of one of the two solvers alone.
InitSolver ==
  /\ pc = "idle"
  /\ args = NoArgs
  /\ Fresh
  /\ fmt = NoFmt
  /\ \/ sol \in [pc : { "call" }, fn : { "_hour_angle_below_horizon" },
                 lat_deg : SolverLatitudes, decl_deg : SolverDeclinations,
                 angle_below_deg : SolverAngles, cos_omega : { None },
                 out : { None }]
     \/ sol \in [pc : { "call" }, fn : { "_asr_hour_angle_shafi" },
                 lat_deg : SolverLatitudes, decl_deg : SolverDeclinations,
                 angle_below_deg : { 0 }, cos_omega : { None }, out : { None }]

\* ---------------------------------------------------------------- actions
Bind(locals) == frame' = locals @@ frame

RaiseFrom(e) ==
  /\ pc' = "raised"
  /\ exc' = e
  /\ UNCHANGED << args, result, prev, fmt, sol >>

Goto(label) ==
  /\ pc' = label
  /\ UNCHANGED << args, result, exc, prev, fmt, sol >>

\* parts = date.split("-"); the length check; the three int() calls
ParseDate ==
  /\ pc = "split"
  /\ LET parts == Split(args.date, "-")
         year == PyInt(parts[1])
         month == PyInt(parts[2])
         day == PyInt(parts[3])
     IN  IF Len(parts) # 3
         THEN Bind([parts |-> parts]) /\ RaiseFrom("ValueError")
         ELSE IF year.exc # "" \/ month.exc # "" \/ day.exc # ""
         THEN Bind([parts |-> parts]) /\ RaiseFrom("ValueError")
         ELSE /\ Bind([parts |-> parts, year |-> year.ret,
                       month |-> month.ret, day |-> day.ret])
              /\ Goto("julian")

\* jd = _julian_date(...); eqtime, decl = _sun_eq_of_time_and_declination(jd)
SolarPosition ==
  /\ pc = "julian"
  /\ LET jd == JulianDate(frame.year, frame.month, frame.day, 12)
         sun == SunEqOfTimeAndDeclination(jd)
     IN  Bind([jd |-> jd, eqtime |-> sun[1], decl |-> sun[2]])
  /\ Goto("dhuhr")

\* dhuhr = _dhuhr_local(lng, timezone_offset_minutes, eqtime)
Dhuhr ==
  /\ pc = "dhuhr"
  /\ Bind([dhuhr |-> DhuhrLocal(args.lng, args.timezone_offset_minutes, frame.eqtime)])
  /\ Goto("sun")

\* gunes = dhuhr - sunrise_offset
GunesOf(dhuhr, sunrise_offset) == dhuhr - sunrise_offset
\* SunsetOf counting the offset once more.
SunsetOfTwice(dhuhr, sunrise_offset) == dhuhr + 2 * sunrise_offset

\* sunset = dhuhr + sunrise_offset
SunsetOf(dhuhr, sunrise_offset) == dhuhr + sunrise_offset

\* omega_sun, sunrise_offset, gunes, sunset
SunriseSunset ==
  /\ pc = "sun"
  /\ LET omega_sun == HourAngleBelowHorizon(args.lat, frame.decl, SUNRISE_SUNSET_ANGLE)
         sunrise_offset == OffsetOf(omega_sun.ret)
     IN  IF omega_sun.exc # ""
         THEN UNCHANGED frame /\ RaiseFrom(omega_sun.exc)
         ELSE /\ Bind([omega_sun |-> omega_sun.ret, sunrise_offset |-> sunrise_offset,
                       gunes |-> GunesOf(frame.dhuhr, sunrise_offset),
                       sunset |-> SunsetOf(frame.dhuhr, sunrise_offset)])
              /\ Goto("fajr")

\* omega_fajr, fajr_offset, imsak
Imsak ==
  /\ pc = "fajr"
  /\ LET omega_fajr == HourAngleBelowHorizon(args.lat, frame.decl, FAJR_ANGLE)
         fajr_offset == OffsetOf(omega_fajr.ret)
     IN  IF omega_fajr.exc # ""
         THEN UNCHANGED frame /\ RaiseFrom(omega_fajr.exc)
         ELSE /\ Bind([omega_fajr |-> omega_fajr.ret, fajr_offset |-> fajr_offset,
                       imsak |-> frame.dhuhr - fajr_offset])
              /\ Goto("isha")

\* omega_isha, isha_offset, yatsi
Yatsi ==
  /\ pc = "isha"
  /\ LET omega_isha == HourAngleBelowHorizon(args.lat, frame.decl, ISHA_ANGLE)
         isha_offset == OffsetOf(omega_isha.ret)
     IN  IF omega_isha.exc # ""
         THEN UNCHANGED frame /\ RaiseFrom(omega_isha.exc)
         ELSE /\ Bind([omega_isha |-> omega_isha.ret, isha_offset |-> isha_offset,
                       yatsi |-> frame.dhuhr + isha_offset])
              /\ Goto("asr")

\* omega_asr, asr_offset, ikindi
Ikindi ==
  /\ pc = "asr"
  /\ LET omega_asr == AsrHourAngleShafi(args.lat, frame.decl)
         asr_offset == OffsetOf(omega_asr.ret)
     IN  IF omega_asr.exc # ""
         THEN UNCHANGED frame /\ RaiseFrom(omega_asr.exc)
         ELSE /\ Bind([omega_asr |-> omega_asr.ret, asr_offset |-> asr_offset,
                       ikindi |-> frame.dhuhr + asr_offset])
              /\ Goto("margins")

\* gunes_adjusted = gunes - 7.0 / 60.0
GunesAdjusted(gunes) == gunes - Minutes(7)
\* aksam_adjusted = aksam + 7.0 / 60.0
AksamAdjusted(aksam) == aksam + Minutes(7)
\* IkindiAdjusted with the margin of ogle.
IkindiAdjustedFive(ikindi) == ikindi + Minutes(5)

\* ikindi_adjusted = ikindi + 4.0 / 60.0
IkindiAdjusted(ikindi) == ikindi + Minutes(4)
\* ogle_adjusted = ogle + 5.0 / 60.0
OgleAdjusted(ogle) == ogle + Minutes(5)

\* HighLatitude with 45 degrees itself counted as high.
HighLatitudeInclusive(lat) == lat >= 45 * MilliDeg \/ lat <= -45 * MilliDeg

\* if lat > 45 or lat < -45
HighLatitude(lat) == lat > 45 * MilliDeg \/ lat < -45 * MilliDeg

\* yatsi = aksam_adjusted + 92.0 / 60.0 under the condition above
YatsiOf(lat, yatsi, aksam_adjusted) ==
  IF HighLatitude(lat) THEN aksam_adjusted + Minutes(92) ELSE yatsi

\* aksam, ogle, the four margins and the high-latitude yatsi
Margins ==
  /\ pc = "margins"
  /\ LET aksam == frame.sunset
         ogle == frame.dhuhr
         aksam_adjusted == AksamAdjusted(aksam)
     IN  Bind([aksam |-> aksam, ogle |-> ogle,
               gunes_adjusted |-> GunesAdjusted(frame.gunes),
               aksam_adjusted |-> aksam_adjusted,
               ikindi_adjusted |-> IkindiAdjusted(frame.ikindi),
               ogle_adjusted |-> OgleAdjusted(ogle),
               yatsi |-> YatsiOf(args.lat, frame.yatsi, aksam_adjusted)])
  /\ Goto("format")

\* return PrayerTimesResult(...)
Format ==
  /\ pc = "format"
  /\ result' = Some([imsak |-> DecimalHourToHHMM(frame.imsak),
                     gunes |-> DecimalHourToHHMM(frame.gunes_adjusted),
                     ogle |-> DecimalHourToHHMM(frame.ogle_adjusted),
                     ikindi |-> DecimalHourToHHMM(frame.ikindi_adjusted),
                     aksam |-> DecimalHourToHHMM(frame.aksam_adjusted),
                     yatsi |-> DecimalHourToHHMM(frame.yatsi)])
  /\ pc' = "done"
  /\ UNCHANGED << args, frame, exc, prev, fmt, sol >>

\* After a call that returned, the caller asks again for the same latitude
\* and day at another longitude or under another offset (the core is called
\* once per request); the finished call is kept in prev.
NextRequest ==
  /\ pc = "done"
  /\ \E g \in Longitudes, t \in TimezoneOffsets :
       args' = [args EXCEPT !.lng = g, !.timezone_offset_minutes = t]
  /\ prev' = Some([args |-> args, frame |-> frame, result |-> result])
  /\ pc' = "split"
  /\ frame' = NoLocals
  /\ result' = None
  /\ exc' = ""
  /\ UNCHANGED << fmt, sol >>

Next ==
  \/ ParseDate
  \/ SolarPosition
  \/ Dhuhr
  \/ SunriseSunset
  \/ Imsak
  \/ Yatsi
  \/ Ikindi
  \/ Margins
  \/ Format
  \/ NextRequest

Spec == Init /\ [][Next]_vars

\* _decimal_hour_to_hhmm(h), called on its own
FormatHour ==
  /\ fmt.s = None
  /\ pc = "idle"
  /\ fmt' = [fmt EXCEPT !.s = Some(DecimalHourToHHMM(fmt.h))]
  /\ UNCHANGED << pc, args, frame, result, exc, prev, sol >>

NextFmt == Next \/ FormatHour

\* The formatter on every decimal hour of FmtInputs, and the calls of
\* get_prayer_times whose six instants it formats.
SpecFmt == (InitFmt \/ InitPlaces) /\ [][NextFmt]_vars

\* _hour_angle_below_horizon(lat_deg, decl_deg, angle_below_deg), on its own
SolveBelowHorizon ==
  /\ sol.pc = "call"
  /\ sol.fn = "_hour_angle_below_horizon"
  /\ sol' = [sol EXCEPT
       !.pc = "returned",
       !.cos_omega = Some(CosOmega(Sin(-sol.angle_below_deg), sol.lat_deg, sol.decl_deg)),
       !.out = Some(HourAngleBelowHorizon(sol.lat_deg, sol.decl_deg, sol.angle_below_deg))]
  /\ UNCHANGED << pc, args, frame, result, exc, prev, fmt >>

\* _asr_hour_angle_shafi(lat_deg, decl_deg), on its own
SolveAsr ==
  /\ sol.pc = "call"
  /\ sol.fn = "_asr_hour_angle_shafi"
  /\ sol' = [sol EXCEPT
       !.pc = "returned",
       !.cos_omega = IF Abs(sol.lat_deg - sol.decl_deg) >= 90 * MilliDeg THEN None
                     ELSE Some(AsrCosOmega(sol.lat_deg, sol.decl_deg)),
       !.out = Some(AsrHourAngleShafi(sol.lat_deg, sol.decl_deg))]
  /\ UNCHANGED << pc, args, frame, result, exc, prev, fmt >>

NextSolver == SolveBelowHorizon \/ SolveAsr

SpecSolver == InitSolver /\ [][NextSolver]_vars

\* ------------------------------------------------------------------ claims
Poles == { 90 * MilliDeg, -90 * MilliDeg }
LatInRange == -90 * MilliDeg <= args.lat /\ args.lat <= 90 * MilliDeg
LngInRange == -180 * MilliDeg <= args.lng /\ args.lng <= 180 * MilliDeg
FieldNames == { "imsak", "gunes", "ogle", "ikindi", "aksam", "yatsi" }
SixFields == result # None /\ DOMAIN result[1] = FieldNames
\* The six instants handed to the formatter, by the local that holds each.
InstantNames ==
  { "imsak", "gunes_adjusted", "ogle_adjusted", "ikindi_adjusted", "aksam_adjusted", "yatsi" }
Day == 24 * TicksPerHour

\* C1: a call with latitude outside [-90, 90] or longitude outside
\* [-180, 180] ends in an error and returns no six-field result.
C1_OutOfRangeRejected ==
  (~LatInRange \/ ~LngInRange) => (pc # "done" /\ result = None)

\* The positions of the '-' characters of a string.
Dashes(s) == { i \in 1..Len(s) : s[i] = "-" }

\* Text that reads as an integer: digits, after at most one sign, with
\* blanks before and after.
IsIntegerText(p) ==
  \E a \in 1..Len(p), b \in 1..Len(p) :
    /\ a <= b
    /\ \A k \in a..b : p[k] \in DigitChars
    /\ \A k \in (b + 1)..Len(p) : p[k] \in Whitespace
    /\ \A k \in 1..(a - 1) : p[k] \in Whitespace \/ (k = a - 1 /\ p[k] \in { "+", "-" })

\* A date that is not three integers separated by two '-'.
Malformed(date) ==
  \/ Cardinality(Dashes(date)) # 2
  \/ \E i \in Dashes(date), j \in Dashes(date) :
       /\ i < j
       /\ \/ ~IsIntegerText(SubSeq(date, 1, i - 1))
          \/ ~IsIntegerText(SubSeq(date, i + 1, j - 1))
          \/ ~IsIntegerText(SubSeq(date, j + 1, Len(date)))

\* C2: once the date of a call has been looked at, a date that does not
\* split on '-' into exactly three integers has ended the call in a
\* ValueError, with no result and with nothing computed: no Julian date, no
\* solar position, no solar noon and no hour angle is bound.
C2_MalformedDateFailsFast ==
  (pc \notin { "split", "idle" } /\ Malformed(args.date)) =>
    /\ pc = "raised"
    /\ exc = "ValueError"
    /\ result = None
    /\ DOMAIN frame = { "parts" }

\* A date with two separators and a part that is no integer was rejected.
C2_Witness ==
  /\ pc = "raised"
  /\ exc = "ValueError"
  /\ Cardinality(Dashes(args.date)) = 2
  /\ Len(args.date) = 5

\* C3: no call raises a division by zero; at latitude +90 or -90 the four
\* hour angles are undefined, each offset is zero, each instant before the
\* margins is solar noon, and the call returns all six fields.
C3_PoleNeverCrashes ==
  /\ exc # "ZeroDivisionError"
  /\ args.lat \in Poles =>
       /\ pc = "raised" => ~Bound("jd")
       /\ Bound("omega_sun") =>
            /\ frame.omega_sun = None /\ frame.sunrise_offset = 0
            /\ frame.gunes = frame.dhuhr /\ frame.sunset = frame.dhuhr
       /\ Bound("omega_fajr") =>
            frame.omega_fajr = None /\ frame.fajr_offset = 0 /\ frame.imsak = frame.dhuhr
       /\ Bound("omega_isha") => frame.omega_isha = None /\ frame.isha_offset = 0
       /\ Bound("omega_asr") =>
            frame.omega_asr = None /\ frame.asr_offset = 0 /\ frame.ikindi = frame.dhuhr
       /\ pc = "done" => SixFields

\* A call at a pole returned its six fields.
C3_Witness ==
  /\ args.lat \in Poles
  /\ pc = "done"
  /\ frame.omega_sun = None
  /\ frame.omega_asr = None
  /\ SixFields

\* A 24-hour clock value: two digits, ':', two digits, 00..23 and 00..59.
WellFormedClock(s) ==
  /\ Len(s) = 5
  /\ s[3] = ":"
  /\ \A i \in { 1, 2, 4, 5 } : s[i] \in DigitChars
  /\ 10 * DigitValue(s[1]) + DigitValue(s[2]) <= 23
  /\ 10 * DigitValue(s[4]) + DigitValue(s[5]) <= 59

\* C4: _decimal_hour_to_hhmm returns a well-formed 24-hour clock value for
\* every decimal hour, negative, within the day or beyond it, and so is
\* each of the six fields get_prayer_times returns.
C4_ClockWellFormed ==
  /\ fmt.s # None => WellFormedClock(fmt.s[1])
  /\ result # None =>
       /\ DOMAIN result[1] = FieldNames
       /\ \A k \in FieldNames : WellFormedClock(result[1][k])

\* Less than half a minute before 24:00 is formatted as 00:00.
C4_Witness ==
  /\ fmt.h = 24 * TicksPerHour - 10
  /\ fmt.s = Some(<< "0", "0", ":", "0", "0" >>)

\* C5: once the margins are applied, above 45 degrees of latitude north or
\* south yatsi is sunset plus 7 minutes plus 92 minutes, whatever the Isha
\* hour angle; at 45 degrees and below it is solar noon plus the Isha offset.
C5_HighLatitudeOverride ==
  pc \in { "format", "done" } =>
    /\ Abs(args.lat) > 45 * MilliDeg =>
         /\ frame.aksam_adjusted = frame.sunset + Minutes(7)
         /\ frame.yatsi = frame.aksam_adjusted + Minutes(92)
    /\ Abs(args.lat) <= 45 * MilliDeg =>
         frame.yatsi = frame.dhuhr + frame.isha_offset

\* Above 45 degrees with the Isha hour angle undefined, and returned.
C5_Witness ==
  /\ pc = "done"
  /\ args.lat = 70000
  /\ frame.omega_isha = None
  /\ frame.omega_asr # None
  /\ frame.yatsi = frame.sunset + Minutes(99)

\* The offset of an hour angle: zero when undefined, else degrees / 15.
OffsetFor(omega) == IF omega = None THEN 0 ELSE DegToHours(omega[1])

\* C6: an undefined hour angle is no error: its offset is zero and its
\* instant, before the margins, is solar noon, while every other instant
\* is solar noon plus or minus its own offset; a call whose date parsed
\* never raises, and a call that is done has returned all six fields.
C6_UndefinedIsZeroOffset ==
  /\ pc = "raised" => ~Bound("jd")
  /\ pc = "done" => SixFields
  /\ Bound("omega_sun") =>
       /\ frame.sunrise_offset = OffsetFor(frame.omega_sun)
       /\ frame.gunes = frame.dhuhr - frame.sunrise_offset
       /\ frame.sunset = frame.dhuhr + frame.sunrise_offset
  /\ Bound("omega_fajr") =>
       /\ frame.fajr_offset = OffsetFor(frame.omega_fajr)
       /\ frame.imsak = frame.dhuhr - frame.fajr_offset
  /\ Bound("omega_isha") =>
       /\ frame.isha_offset = OffsetFor(frame.omega_isha)
       /\ pc \in { "asr", "margins" } => frame.yatsi = frame.dhuhr + frame.isha_offset
  /\ Bound("omega_asr") =>
       /\ frame.asr_offset = OffsetFor(frame.omega_asr)
       /\ frame.ikindi = frame.dhuhr + frame.asr_offset

\* Fajr is undefined and Asr is not: imsak is solar noon, ikindi is later.
C6_Witness ==
  /\ pc = "done"
  /\ frame.omega_fajr = None
  /\ frame.omega_asr # None
  /\ frame.imsak = frame.dhuhr
  /\ frame.ikindi > frame.dhuhr
  /\ SixFields

\* C7: the instants handed to the formatter are gunes = dhuhr - sunrise
\* offset - 7 min, aksam = dhuhr + sunrise offset + 7 min, ikindi = dhuhr +
\* asr offset + 4 min, ogle = dhuhr + 5 min, imsak = dhuhr - fajr offset,
\* and, at 45 degrees of latitude and below, yatsi = dhuhr + isha offset.
C7_DiyanetMargins ==
  pc \in { "format", "done" } =>
    /\ 60 * (frame.gunes_adjusted - (frame.dhuhr - frame.sunrise_offset)) = -7 * TicksPerHour
    /\ 60 * (frame.aksam_adjusted - (frame.dhuhr + frame.sunrise_offset)) = 7 * TicksPerHour
    /\ 60 * (frame.ikindi_adjusted - (frame.dhuhr + frame.asr_offset)) = 4 * TicksPerHour
    /\ 60 * (frame.ogle_adjusted - frame.dhuhr) = 5 * TicksPerHour
    /\ frame.imsak = frame.dhuhr - frame.fajr_offset
    /\ Abs(args.lat) <= 45 * MilliDeg => frame.yatsi = frame.dhuhr + frame.isha_offset

\* A returned call at 45 degrees or below with every hour angle defined.
C7_Witness ==
  /\ pc = "done"
  /\ args.lat = 41008
  /\ frame.omega_sun # None /\ frame.omega_asr # None
  /\ frame.omega_fajr # None /\ frame.omega_isha # None
  /\ frame.ikindi_adjusted > frame.ogle_adjusted

\* C8: before the margins, sunrise and sunset lie at the same distance, the
\* sunrise offset, on either side of solar noon; the distance is 0 when the
\* sunrise hour angle is undefined.
C8_NoonSymmetry ==
  Bound("sunset") =>
    /\ frame.dhuhr - frame.gunes = frame.sunset - frame.dhuhr
    /\ frame.sunset - frame.dhuhr = frame.sunrise_offset
    /\ frame.omega_sun = None => frame.gunes = frame.dhuhr /\ frame.sunset = frame.dhuhr

\* Sunrise and sunset some hours on either side of solar noon.
C8_Witness ==
  /\ Bound("sunset")
  /\ frame.omega_sun # None
  /\ frame.sunset - frame.dhuhr > 3 * TicksPerHour
  /\ frame.dhuhr - frame.gunes > 3 * TicksPerHour

\* The previous call, when it was for this longitude too.
SamePlace == prev # None /\ prev[1].args.lng = args.lng

C10_InclusiveBoundary ==
  sol.pc = "returned" =>
    LET out == sol.out[1]
        far == Abs(sol.lat_deg - sol.decl_deg) >= 90 * MilliDeg
        asr == sol.fn = "_asr_hour_angle_shafi"
    IN  /\ out.exc = ""
        /\ (asr /\ far) => out.ret = None
        /\ ~(asr /\ far) =>
             LET c == sol.cos_omega[1].ret
             IN  /\ out.ret = None <=> (c < -Scale \/ c > Scale)
                 /\ c = Scale => out.ret = Some(0)
                 /\ c = -Scale => out.ret = Some(180 * MilliDeg)
        /\ out.ret # None => 0 <= out.ret[1] /\ out.ret[1] <= 180 * MilliDeg

\* cos(omega) is exactly -1 and the hour angle returned is 180 degrees.
C10_Witness ==
  /\ sol.pc = "returned"
  /\ sol.fn = "_hour_angle_below_horizon"
  /\ sol.cos_omega[1].ret = -Scale
  /\ sol.out[1].ret = Some(180 * MilliDeg)

====
